---- MODULE Spec2Model ----
(***************************************************************************)
(* Model of gamma_spectroscopy/fake_picoscope.py: the FakePicoScope class. *)
(*                                                                         *)
(* Threads: one caller thread issuing the public calls, the threads that   *)
(* block in wait_for_data, and one thread per threading.Timer created by   *)
(* start_run.  A Timer thread runs                                         *)
(*     self.finished.wait(self.interval)                                   *)
(*     if not self.finished.is_set(): self.function(args)                  *)
(*     self.finished.set()                                                 *)
(* and Timer.cancel() is self.finished.set().  Time is not measured: a     *)
(* timer's 0.5 s delay is the nondeterministic moment of its TimerElapse.  *)
(***************************************************************************)
EXTENDS Integers, Sequences, FiniteSets, TLC

VARIABLES
    channels_enabled,   \* self._channels_enabled
    run_attrs,          \* self._num_samples, self._timebase, self._num_captures:
                        \* the attributes start_run creates (none before it)
    data_is_ready,      \* self.data_is_ready: the Event's flag
    _timer,             \* self._timer: 0 for None, else an index into timers
    timers,             \* every Timer object created so far, with its thread
    waiters,            \* the threads that call wait_for_data
    caller              \* the caller thread: the call in progress / last call

vars == <<channels_enabled, run_attrs,
          data_is_ready, _timer, timers, waiters, caller>>

ctrl == <<channels_enabled, run_attrs,
          data_is_ready, _timer, timers, waiters>>

----------------------------------------------------------------------------
(* Bounds and input sets *)

MaxRuns == 2                     \* start_run calls in one behaviour
MinTimebase == 0 - 4             \* inputs of get_interval_from_timebase
MaxTimebase == 9
MaxNumSamples == 5

NoAttrs == [a \in {} |-> 0]       \* no run attribute was assigned yet
None == "None"
NULL == "NULL"                   \* ctypes.c_void_p().value
UserCallback == "user_callback"  \* a caller-supplied callback; it does not
                                 \* touch the FakePicoScope object
DefaultCallback == "data_is_ready_callback"

Waiters == {"w1"}
Channels == {"A", "B"}

\* <<num_pre_samples, num_post_samples, timebase, num_captures>>
GoodConfigs == {<<1, 1, 4, 1>>, <<0, 1, 3, 2>>}
BadConfigs  == {<<0 - 1, 0, 4, 1>>, <<1, 0 - 1, 4, 1>>, <<0, 0, 4, 1>>,
                <<1, 1, 4, 0>>}
RunConfigs  == GoodConfigs \cup BadConfigs
Callbacks   == {None, UserCallback}

----------------------------------------------------------------------------
(* threading.Event and threading.Timer, as start_run, wait_for_data and    *)
(* stop use them                                                           *)

\* Event.set(): the flag becomes true and every thread blocked in wait()
\* is notified.
EventSetWaiters(ws) ==
    [w \in Waiters |->
        IF ws[w].pc = "blocked" THEN [ws[w] EXCEPT !.pc = "woken"] ELSE ws[w]]

\* callback_factory(self.data_is_ready): the default callback sets the event.
callback_factory(flag) == TRUE

\* Mutant of InvokeFlag: the event is set whatever the callback is.
InvokeFlagAlways(function, flag) == TRUE

\* What invoking `function` does to the event's flag.
InvokeFlag(function, flag) ==
    IF function = DefaultCallback THEN callback_factory(flag) ELSE flag

\* Mutant of NewTimer: the Timer is created and never started.
NewTimerNotStarted(callback) ==
    [function |-> callback,
     args     |-> <<0, 0, NULL>>,
     pc       |-> "done",
     finished |-> FALSE,
     calls    |-> <<>>]

\* Timer(0.5, callback, (ctypes.c_int16(), ctypes.c_int(), ctypes.c_void_p()))
\* followed by start(): a new thread, waiting for the interval to elapse.
NewTimer(callback) ==
    [function |-> callback,
     args     |-> <<0, 0, NULL>>,
     pc       |-> "wait",
     finished |-> FALSE,
     calls    |-> <<>>]

\* Timer.cancel(): self.finished.set()
cancel(t) == [t EXCEPT !.finished = TRUE]

\* Timer.run() up to its test: finished.wait(interval) has returned, and
\* `if not self.finished.is_set()` chooses between calling the function and
\* ending (where finished.set() changes nothing, the flag being set).
run_wait(t) == [t EXCEPT !.pc = IF t.finished THEN "done" ELSE "call"]

\* Timer.run() from the call on: self.function(args) on the timer's own
\* thread, then self.finished.set().
run_call(t) ==
    [t EXCEPT !.pc = "done",
              !.finished = TRUE,
              !.calls = Append(@, [thread |-> "timer", args |-> t.args])]

----------------------------------------------------------------------------
(* Rational numbers <<num, den>>, den > 0, in lowest terms: the values of  *)
(* the float expressions of get_interval_from_timebase, which are exact in *)
(* binary floating point for the timebases used here.                      *)

RECURSIVE Gcd(_, _)
Gcd(a, b) == IF b = 0 THEN a ELSE Gcd(b, a % b)

Abs(x) == IF x < 0 THEN 0 - x ELSE x

Rat(n, d) ==
    LET g == Gcd(Abs(n), d)
    IN  IF n = 0 THEN <<0, 1>> ELSE <<n \div g, d \div g>>

RECURSIVE Pow2(_)
Pow2(e) == IF e = 0 THEN 1 ELSE 2 * Pow2(e - 1)

\* 2 ** e: an int for e >= 0, the float 1 / 2 ** -e for e < 0
PyPow2(e) == IF e >= 0 THEN <<Pow2(e), 1>> ELSE <<1, Pow2(0 - e)>>

\* x / hz * 1e9, with hz given as mhz_num / mhz_den MHz
PerHzInNs(x, mhz_num, mhz_den) ==
    Rat(x[1] * 1000 * mhz_den, x[2] * mhz_num)

\* What a call leaves in the caller: the exception raised (None when it
\* returned) and the value returned.
Outcome(raised, value) == [raised |-> raised, value |-> value]

\* Mutant of get_interval_from_timebase: the regimes meet at 2, not at 3.
get_interval_boundary_2(tb, n) ==
    IF tb < 3
    THEN Outcome(None, PerHzInNs(PyPow2(tb - 1), 500, 1))
    ELSE Outcome(None, PerHzInNs(<<tb - 3, 1>>, 625, 10))

get_interval_from_timebase(tb, n) ==
    IF tb <= 3
    THEN Outcome(None, PerHzInNs(PyPow2(tb - 1), 500, 1))
    ELSE Outcome(None, PerHzInNs(<<tb - 3, 1>>, 625, 10))

----------------------------------------------------------------------------
(* The caller thread's record *)

NoOutcome == Outcome(None, None)

Returned(op, args, outcome) ==
    [pc |-> "idle", op |-> op, args |-> args, callback |-> None, step |-> 0,
     result |-> outcome]

InStartRun(args, callback, step) ==
    [pc |-> "start_run", op |-> "start_run", args |-> args,
     callback |-> callback, step |-> step, result |-> NoOutcome]

----------------------------------------------------------------------------
(* Initial state: FakePicoScope.__init__ *)

Init ==
    /\ channels_enabled = [c \in Channels |-> TRUE]
    /\ run_attrs = NoAttrs
    /\ data_is_ready = FALSE
    /\ _timer = 0
    /\ timers = <<>>
    /\ waiters = [w \in Waiters |->
                     [pc |-> "idle", how |-> "none", after_start |-> FALSE]]
    /\ caller = Returned("__init__", <<>>, NoOutcome)

----------------------------------------------------------------------------
(* start_run *)

\* Mutant of StartRunSteps: the Timer is started before the event is cleared.
StartRunStepsTimerFirst == <<"start_timer", "clear">>

\* The statements of start_run that touch what other threads see, in
\* program order: line 181, then lines 183-185.
StartRunSteps == <<"clear", "start_timer">>

\* One statement of start_run.
StartRunEffect(name, callback) ==
    CASE name = "clear" ->
            /\ data_is_ready' = FALSE
            /\ UNCHANGED <<_timer, timers>>
      [] name = "start_timer" ->
            /\ timers' = Append(timers, NewTimer(callback))
            /\ _timer' = Len(timers) + 1
            /\ UNCHANGED data_is_ready

\* Mutant of choose_callback: the supplied callback is ignored.
choose_callback_default(cb) == DefaultCallback

\* Lines 179-180: if callback is None: callback = self._callback
choose_callback(cb) == IF cb = None THEN DefaultCallback ELSE cb

\* The caller after statement number `step` of a start_run(args), `callback`
\* being its local variable.
AfterStep(args, callback, step) ==
    IF step = Len(StartRunSteps)
    THEN Returned("start_run", <<>>, NoOutcome)
    ELSE InStartRun(args, callback, step + 1)

\* Mutant of save_run: the post-trigger samples are left out.
save_run_pre_only(cfg) ==
    [num_samples  |-> cfg[1],
     timebase     |-> cfg[3],
     num_captures |-> cfg[4]]

\* Lines 175-177: self._num_samples, self._timebase, self._num_captures
save_run(cfg) ==
    [num_samples  |-> cfg[1] + cfg[2],
     timebase     |-> cfg[3],
     num_captures |-> cfg[4]]

\* start_run(cfg[1], cfg[2], cfg[3], cfg[4], cb) is called: lines 175-180
\* (the object's run attributes, which only the caller reads, and the choice
\* of callback) and the first statement after them.
StartRunCall(cfg, cb) ==
    /\ caller.pc = "idle"
    /\ Len(timers) < MaxRuns
    /\ run_attrs' = save_run(cfg)
    /\ StartRunEffect(StartRunSteps[1], choose_callback(cb))
    /\ caller' = AfterStep(cfg \o <<cb>>, choose_callback(cb), 1)
    /\ waiters' = [w \in Waiters |-> [waiters[w] EXCEPT !.after_start = FALSE]]
    /\ UNCHANGED channels_enabled

\* The next statement of the start_run in progress.
StartRunStep ==
    /\ caller.pc = "start_run"
    /\ StartRunEffect(StartRunSteps[caller.step], caller.callback)
    /\ caller' = AfterStep(caller.args, caller.callback, caller.step)
    /\ UNCHANGED <<channels_enabled, run_attrs, waiters>>

----------------------------------------------------------------------------
(* stop *)

\* Mutant of stop: self._timer.cancel() without the test for None.
stop_unguarded(tm, ts) ==
    IF tm = 0
    THEN [timers |-> ts, raised |-> "AttributeError"]
    ELSE [timers |-> [ts EXCEPT ![tm] = cancel(@)], raised |-> None]

\* if self._timer is not None: self._timer.cancel()
stop(tm, ts) ==
    [timers |-> IF tm # 0 THEN [ts EXCEPT ![tm] = cancel(@)] ELSE ts,
     raised |-> None]

Stop ==
    /\ caller.pc = "idle"
    /\ timers' = stop(_timer, timers).timers
    /\ caller' = Returned("stop", <<>>, Outcome(stop(_timer, timers).raised, None))
    /\ UNCHANGED <<channels_enabled, run_attrs,
                   data_is_ready, _timer, waiters>>

----------------------------------------------------------------------------
(* The Timer threads *)

\* finished.wait(interval) returns, because the interval elapsed or because
\* cancel() set `finished`; then the test `if not self.finished.is_set()`.
TimerElapse(t) ==
    /\ timers[t].pc = "wait"
    /\ timers' = [timers EXCEPT ![t] = run_wait(@)]
    /\ UNCHANGED <<channels_enabled, run_attrs,
                   data_is_ready, _timer, waiters, caller>>

\* self.function(args), on the timer's thread, then self.finished.set()
TimerCall(t) ==
    /\ timers[t].pc = "call"
    /\ timers' = [timers EXCEPT ![t] = run_call(@)]
    /\ data_is_ready' = InvokeFlag(timers[t].function, data_is_ready)
    /\ waiters' = IF data_is_ready' /\ timers[t].function = DefaultCallback
                  THEN EventSetWaiters(waiters) ELSE waiters
    /\ UNCHANGED <<channels_enabled, run_attrs,
                   _timer, caller>>

----------------------------------------------------------------------------
(* wait_for_data: self.data_is_ready.wait() *)

\* A waiter is [pc, how, after_start]: where its thread is, how its last
\* wait() returned, and whether its current or last call was made after the
\* most recent start_run had returned (start_run resets this note; the code
\* keeps no such record).
AfterStart == caller.pc = "idle" /\ Len(timers) > 0

\* Mutant of WaitCall: the wait returns at once, whatever the flag.
WaitCallNoBlock(w) ==
    /\ waiters[w].pc = "idle"
    /\ waiters' = [waiters EXCEPT ![w] =
                     [pc |-> "idle", how |-> "immediately",
                      after_start |-> AfterStart]]
    /\ UNCHANGED <<channels_enabled, run_attrs,
                   data_is_ready, _timer, timers, caller>>

\* Event.wait() is entered: it returns at once when the flag is set and
\* blocks otherwise.
WaitCall(w) ==
    /\ waiters[w].pc = "idle"
    /\ waiters' = [waiters EXCEPT ![w] =
                     IF data_is_ready
                     THEN [pc |-> "idle", how |-> "immediately",
                           after_start |-> AfterStart]
                     ELSE [pc |-> "blocked", how |-> "none",
                           after_start |-> AfterStart]]
    /\ UNCHANGED <<channels_enabled, run_attrs,
                   data_is_ready, _timer, timers, caller>>

\* A thread notified by Event.set() returns from wait(), whatever the flag
\* has become since.
WaitReturn(w) ==
    /\ waiters[w].pc = "woken"
    /\ waiters' = [waiters EXCEPT ![w].pc = "idle", ![w].how = "after_set"]
    /\ UNCHANGED <<channels_enabled, run_attrs,
                   data_is_ready, _timer, timers, caller>>

----------------------------------------------------------------------------
(* The set-up calls and the calls that are not implemented *)

\* set_channel(channel_name, ..., is_enabled): `pass`
set_channel(enabled, channel_name, is_enabled) == enabled

\* open(): self.set_channel('A', is_enabled=False), then the same for 'B'
open(enabled) == set_channel(set_channel(enabled, "A", FALSE), "B", FALSE)

SetChannel(ch, en) ==
    /\ caller.pc = "idle"
    /\ channels_enabled' = set_channel(channels_enabled, ch, en)
    /\ caller' = Returned("set_channel", <<ch, en>>, NoOutcome)
    /\ UNCHANGED <<run_attrs, data_is_ready,
                   _timer, timers, waiters>>

Open ==
    /\ caller.pc = "idle"
    /\ channels_enabled' = open(channels_enabled)
    /\ caller' = Returned("open", <<>>, NoOutcome)
    /\ UNCHANGED <<run_attrs, data_is_ready,
                   _timer, timers, waiters>>

\* close(), set_up_buffers(...), set_trigger(...): `pass`
PassOps == {"close", "set_up_buffers", "set_trigger"}

Pass(op) ==
    /\ caller.pc = "idle"
    /\ caller' = Returned(op, <<>>, NoOutcome)
    /\ UNCHANGED ctrl

\* measure(num_pre_samples, num_post_samples, timebase, num_captures),
\* measure_adc_values(the same), get_adc_data()
RaisingOps == {"measure", "measure_adc_values", "get_adc_data"}

\* The arguments tried for each of them: a well-formed and a malformed
\* configuration for the two measure calls.
RaisingArgs(op) ==
    IF op = "get_adc_data" THEN {<<>>} ELSE {<<1, 1, 4, 1>>, <<0 - 1, 0, 4, 0>>}

\* Mutant of not_implemented: the arguments are validated first.
not_implemented_validating(op, args) ==
    IF args # <<>> /\ (args[1] < 0 \/ args[4] < 1)
    THEN Outcome("InvalidArgument", None)
    ELSE Outcome("NotImplementedError", None)

\* The body of each of them: `raise NotImplementedError`
not_implemented(op, args) == Outcome("NotImplementedError", None)

Raise(op, args) ==
    /\ caller.pc = "idle"
    /\ caller' = Returned(op, args, not_implemented(op, args))
    /\ UNCHANGED ctrl

----------------------------------------------------------------------------
(* get_data *)

\* interval * np.arange(num_samples) * 1e-9: seconds, as rationals
\* (np.arange of a negative number is empty)
calculate_time_values(tb, n) ==
    LET interval == get_interval_from_timebase(tb, n).value
    IN  [i \in 1..(IF n < 0 THEN 0 ELSE n) |->
            Rat(interval[1] * (i - 1), interval[2] * 1000000000)]

\* .3 * np.ones(shape=(num_captures, num_samples))
ones(captures, n) == [c \in 1..captures |-> [i \in 1..n |-> <<3, 10>>]]

\* An element of V_data: an array, or None for a channel that is not enabled
ArrayEntry(rows) == [is_none |-> FALSE, array |-> rows]
NoneEntry == [is_none |-> TRUE, array |-> <<>>]

\* The channels in the order of the dict self._channels_enabled
ChannelOrder == <<"A", "B">>

get_data(enabled, attrs) ==
    IF attrs = NoAttrs
    THEN Outcome("AttributeError", None)
    ELSE LET tb == attrs.timebase
             n == attrs.num_samples
             captures == attrs.num_captures
         IN  IF (\E ch \in Channels : enabled[ch]) /\ (n < 0 \/ captures < 0)
             THEN Outcome("ValueError", None)     \* np.ones: negative dimensions
             ELSE Outcome(None,
                     [time_values |-> calculate_time_values(tb, n),
                      V_data |-> [k \in 1..Len(ChannelOrder) |->
                                     IF enabled[ChannelOrder[k]]
                                     THEN ArrayEntry(ones(captures, n))
                                     ELSE NoneEntry]])

GetData ==
    /\ caller.pc = "idle"
    /\ caller' = Returned("get_data", <<>>,
                          get_data(channels_enabled, run_attrs))
    /\ UNCHANGED ctrl

----------------------------------------------------------------------------
(* get_interval_from_timebase, called on its own *)

GetInterval(tb, n) ==
    /\ caller.pc = "idle"
    /\ caller' = Returned("get_interval_from_timebase", <<tb, n>>,
                          get_interval_from_timebase(tb, n))
    /\ UNCHANGED ctrl

----------------------------------------------------------------------------
(* Specifications *)

Next ==
    \/ \E cfg \in RunConfigs, cb \in Callbacks : StartRunCall(cfg, cb)
    \/ StartRunStep
    \/ Stop
    \/ \E t \in 1..Len(timers) : TimerElapse(t)
    \/ \E t \in 1..Len(timers) : TimerCall(t)
    \/ \E w \in Waiters : WaitCall(w)
    \/ \E w \in Waiters : WaitReturn(w)
    \/ GetData
    \/ Open
    \/ \E ch \in Channels, en \in BOOLEAN : SetChannel(ch, en)
    \/ \E op \in PassOps : Pass(op)
    \/ \E op \in RaisingOps : \E args \in RaisingArgs(op) : Raise(op, args)

Spec == Init /\ [][Next]_vars

\* The timer threads and the waiting threads are scheduled; the caller is
\* free to make no further call.
Fairness ==
    /\ \A t \in 1..MaxRuns : WF_vars(t <= Len(timers) /\ TimerElapse(t))
    /\ \A t \in 1..MaxRuns : WF_vars(t <= Len(timers) /\ TimerCall(t))
    /\ \A w \in Waiters : WF_vars(WaitReturn(w))
    /\ WF_vars(StartRunStep)

LiveSpec == Spec /\ Fairness

\* The timebase converter alone, over its inputs.
ConvNext ==
    \E tb \in MinTimebase..MaxTimebase, n \in (0 - 2)..MaxNumSamples :
        GetInterval(tb, n)

ConvSpec == Init /\ [][ConvNext]_vars

----------------------------------------------------------------------------
(* Vocabulary of the properties *)

Runs == 1..Len(timers)

\* Run t's completion event fired: its callback was invoked.
Fired(t) == timers[t].calls # <<>>

\* Run t was cancelled: `finished` was set before any call of the callback,
\* which only Timer.cancel() does.
Cancelled(t) == timers[t].finished /\ timers[t].calls = <<>>

\* Run t's completion event is scheduled and neither fired nor cancelled.
Live(t) == timers[t].pc # "done" /\ ~timers[t].finished

\* The configurations startRun is specified to refuse with InvalidArgument (cfg: the arguments
\* of a start_run call).
Malformed(cfg) ==
    \/ cfg[1] < 0
    \/ cfg[2] < 0
    \/ cfg[1] + cfg[2] < 1
    \/ cfg[4] < 1

\* This step invokes run t's callback.
Fires(t) == timers[t].calls = <<>> /\ timers'[t].calls # <<>>

----------------------------------------------------------------------------
(* Properties *)

\* C1: supersession.  Once a later start_run has scheduled its own
\* completion event while run t's delay had not yet elapsed, run t's event
\* never fires: its timer never goes on to call the callback.
C1_SupersededNeverFires ==
    [][\A t \in Runs :
          (t < Len(timers) /\ timers[t].pc = "wait") => timers'[t].pc # "call"]_vars

\* C2: a wait_for_data call made after the most recent start_run returned
\* (no start_run begun since) returns only once that run's own completion
\* event has fired.
C2_WaitReturnsOnlyAfterOwnRunFired ==
    \A w \in Waiters :
        (waiters[w].pc = "idle" /\ waiters[w].how # "none" /\ waiters[w].after_start)
            => Fired(Len(timers))

\* C6: cancellation by stop is atomic with firing.  A run that stop()
\* cancelled before its callback was called never has its callback called
\* (and so never sets the event).
C6_NoCallbackAfterCancel ==
    [][\A t \in Runs : Cancelled(t) => timers'[t].calls = <<>>]_vars

\* C8: at most one scheduled completion event is live (neither fired nor
\* cancelled) in every reachable state.
C8_AtMostOneLiveTimer ==
    Cardinality({t \in Runs : Live(t)}) <= 1

\* C9: every step of a start_run call whose configuration is malformed is a
\* return with InvalidArgument that leaves the run attributes, the event, the
\* current timer and the scheduled timers as they were.
C9_MalformedStartRunRejected ==
    [][((caller.pc = "start_run" /\ Malformed(caller.args))
          \/ (caller'.pc = "start_run" /\ Malformed(caller'.args)))
       => /\ caller'.pc = "idle"
          /\ caller'.result.raised = "InvalidArgument"
          /\ UNCHANGED <<run_attrs, data_is_ready, _timer, timers>>]_vars

\* C10: get_interval_from_timebase raises InvalidArgument for every
\* timebase < 1 and for every negative num_samples.
C10_BadTimebaseRejected ==
    (caller.op = "get_interval_from_timebase"
        /\ (caller.args[1] < 1 \/ caller.args[2] < 0))
    => caller.result.raised = "InvalidArgument"

\* The most recent run uses the default callback, its start_run has
\* returned, and stop() has not cancelled it.  Only a stop() or a further
\* start_run call ends this (during start_run the caller is not idle).
Undisturbed ==
    /\ Len(timers) > 0
    /\ caller.pc = "idle"
    /\ timers[Len(timers)].function = DefaultCallback
    /\ ~Cancelled(Len(timers))

\* C3: liveness of wait_for_data.  While the most recent run, started with
\* the default callback, is followed by no stop and no further start_run, its
\* completion event eventually fires and sets the event, and every
\* wait_for_data call in progress eventually returns; a wait_for_data call
\* made while the event is set returns in the same step, without blocking.
C3_WaitForDataLive ==
    /\ Undisturbed
          ~> ((Undisturbed /\ Fired(Len(timers)) /\ data_is_ready) \/ ~Undisturbed)
    /\ \A w \in Waiters :
          (Undisturbed /\ waiters[w].pc # "idle")
              ~> (waiters[w].pc = "idle" \/ ~Undisturbed)
    /\ [][\A w \in Waiters :
             (/\ waiters[w].pc = "idle"
              /\ data_is_ready
              /\ <<waiters'[w].pc, waiters'[w].how>> # <<waiters[w].pc, waiters[w].how>>)
             => (waiters'[w].pc = "idle" /\ waiters'[w].how = "immediately")]_vars

\* C3 witness: the most recent run, with the default callback and not
\* stopped, has fired, the event is set and a blocked wait_for_data returned.
C3_Witness ==
    /\ Undisturbed /\ Fired(Len(timers)) /\ data_is_ready
    /\ \E w \in Waiters : waiters[w].pc = "idle" /\ waiters[w].how = "after_set"

InEffect(args) == IF args[5] = None THEN DefaultCallback ELSE args[5]

\* C5: a callback is invoked only by a Timer thread, with the placeholder
\* triple (0, 0, NULL), at most once per run, so never more often than
\* start_run was called; the Timer a start_run creates carries the callback
\* in effect for that call; and every run that is neither stopped nor
\* superseded before its delay elapses has its callback invoked.
C5_CallbackExactlyOnce ==
    /\ [](\A t \in Runs :
            /\ Len(timers[t].calls) <= 1
            /\ \A k \in 1..Len(timers[t].calls) :
                  /\ timers[t].calls[k].thread = "timer"
                  /\ timers[t].calls[k].args = <<0, 0, NULL>>
            /\ Fired(t) => timers[t].pc = "done")
    /\ [][Len(timers') > Len(timers) =>
             /\ caller.pc = "start_run"
             /\ timers'[Len(timers')].function = InEffect(caller.args)
             /\ timers'[Len(timers')].calls = <<>>]_vars
    /\ \A t \in 1..MaxRuns :
          (t <= Len(timers))
              ~> (t <= Len(timers)
                    /\ (Fired(t) \/ Cancelled(t) \/ Len(timers) > t))

\* C5 witness: two runs, one with each kind of callback, have fired.
C5_Witness ==
    /\ Len(timers) = 2
    /\ \A t \in Runs : Len(timers[t].calls) = 1
    /\ \E t \in Runs : timers[t].function = UserCallback
    /\ \E t \in Runs : timers[t].function = DefaultCallback

\* C7: stop() never raises and is idempotent.  In every reachable state
\* (no run started, run pending, run cancelled, run fired) stop() returns
\* normally and a second stop() changes nothing more; and a stop() step
\* leaves the event as it was, set if it was set, and the run attributes and
\* self._timer alone.
C7_StopIdempotent ==
    /\ [](LET once == stop(_timer, timers)
          IN  /\ once.raised = None
              /\ stop(_timer, once.timers) = once)
    /\ [][(caller.op # "stop" /\ caller'.op = "stop") =>
             /\ caller'.result.raised = None
             /\ data_is_ready' = data_is_ready
             /\ UNCHANGED <<run_attrs, _timer, waiters>>
             /\ stop(_timer', timers').timers = timers']_vars

\* C7 witness: stop() has returned after the current run's completion event
\* fired, and the event is still set.
C7_Witness ==
    /\ caller.op = "stop"
    /\ _timer # 0
    /\ Fired(_timer)
    /\ data_is_ready

\* a < b for rationals <<num, den>> with den > 0
RatLess(a, b) == a[1] * b[2] < b[1] * a[2]

\* The interval in ns the specification states for a timebase >= 1.
SpecIntervalNs(tb) ==
    CASE tb = 1 -> 2
      [] tb = 2 -> 4
      [] tb = 3 -> 8
      [] tb > 3 -> 16 * (tb - 3)

\* C11: for a timebase in 1..3 get_interval_from_timebase returns 2, 4, 8 ns
\* and for a timebase > 3 it returns 16 * (timebase - 3) ns; the value is the
\* same whatever num_samples is, and the next timebase gives a strictly
\* larger interval (also from 3 to 4).
C11_IntervalFromTimebase ==
    (caller.op = "get_interval_from_timebase" /\ caller.args[1] >= 1) =>
        LET tb == caller.args[1]
            n  == caller.args[2]
        IN  /\ caller.result.raised = None
            /\ caller.result.value = <<SpecIntervalNs(tb), 1>>
            /\ \A m \in (0 - 2)..MaxNumSamples :
                  get_interval_from_timebase(tb, m) = caller.result
            /\ RatLess(caller.result.value,
                       get_interval_from_timebase(tb + 1, n).value)

\* C11 witness: timebase 4 gave 16 ns, the first value of the second regime.
C11_Witness ==
    /\ caller.op = "get_interval_from_timebase"
    /\ caller.args[1] = 4
    /\ caller.result.value = <<16, 1>>

\* Some wait_for_data call made after the most recent start_run returned
\* has returned.
WaitedForRun ==
    \E w \in Waiters :
        waiters[w].pc = "idle" /\ waiters[w].how # "none" /\ waiters[w].after_start

\* The caller's last call disabled channel ch: open(), or
\* set_channel(ch, is_enabled=False).
JustDisabled(ch) ==
    \/ caller.op = "open"
    \/ caller.op = "set_channel" /\ caller.args = <<ch, FALSE>>

\* C12: a get_data call that follows a well-formed start_run and a returned
\* wait_for_data yields num_samples elapsed times, the i-th being i times the
\* interval of the run's timebase (in seconds, from 0), and for each channel
\* a num_captures x num_samples grid of the placeholder 0.3, or None for a
\* channel that was disabled (here: by the call just before get_data, or
\* recorded as not enabled by the object).
C12_GetDataShape ==
    [][(/\ caller'.op = "get_data"
        /\ caller.op # "get_data"
        /\ run_attrs # NoAttrs
        /\ WaitedForRun)
       => \/ run_attrs.num_samples < 1
          \/ run_attrs.num_captures < 1
          \/ run_attrs.timebase < 1
          \/ /\ caller'.result.raised = None
             /\ caller'.result.value.time_values =
                   [i \in 1..run_attrs.num_samples |->
                       Rat((i - 1) * SpecIntervalNs(run_attrs.timebase), 1000000000)]
             /\ \A k \in 1..Len(ChannelOrder) :
                   caller'.result.value.V_data[k] =
                      IF JustDisabled(ChannelOrder[k]) \/ ~channels_enabled[ChannelOrder[k]]
                      THEN NoneEntry
                      ELSE ArrayEntry([c \in 1..run_attrs.num_captures |->
                                         [i \in 1..run_attrs.num_samples |-> <<3, 10>>]])]_vars

\* C13: get_data returns without raising in every state, and its step leaves
\* the event and the waiting threads as they were.
C13_GetDataAnyState ==
    [][(caller'.op = "get_data" /\ caller.op # "get_data")
       => /\ caller'.result.raised = None
          /\ UNCHANGED <<data_is_ready, waiters, _timer, timers>>]_vars

SetupOps == {"open", "set_channel"} \cup PassOps

\* C15: the stored run attributes change only in the step that enters
\* start_run, which replaces all three by that call's arguments (the sample
\* count being pre plus post); no step of stop, wait_for_data, get_data, a
\* Timer thread or a set-up call changes them.  A set-up call succeeds and
\* leaves the event, self._timer and the timers as they were as well.  A
\* get_data that returns arrays has as many time values as the stored sample
\* count, spaced by the stored timebase's interval, and for every enabled
\* channel as many rows as the stored capture count.
C15_RunAttrsOnlyByStartRun ==
    /\ [][run_attrs' # run_attrs
             => /\ caller.pc = "idle"
                /\ caller'.op = "start_run"
                /\ caller'.args # <<>>
                /\ run_attrs' = [num_samples  |-> caller'.args[1] + caller'.args[2],
                                 timebase     |-> caller'.args[3],
                                 num_captures |-> caller'.args[4]]]_vars
    /\ [][(caller.pc = "idle" /\ caller'.pc = "start_run")
             => run_attrs' = [num_samples  |-> caller'.args[1] + caller'.args[2],
                              timebase     |-> caller'.args[3],
                              num_captures |-> caller'.args[4]]]_vars
    /\ [][(caller'.op \in SetupOps /\ caller' # caller)
             => /\ caller'.result.raised = None
                /\ UNCHANGED <<run_attrs, data_is_ready, _timer, timers, waiters>>]_vars
    /\ [](caller.op = "get_data" /\ caller.result.raised = None
             => LET data == caller.result.value
                IN  /\ Len(data.time_values) = run_attrs.num_samples
                    /\ \A i \in 1..Len(data.time_values) :
                          data.time_values[i] =
                             Rat((i - 1) * get_interval_from_timebase(
                                               run_attrs.timebase,
                                               run_attrs.num_samples).value[1],
                                 1000000000 * get_interval_from_timebase(
                                                  run_attrs.timebase,
                                                  run_attrs.num_samples).value[2])
                    /\ \A k \in 1..Len(data.V_data) :
                          ~data.V_data[k].is_none
                             => /\ Len(data.V_data[k].array) = run_attrs.num_captures
                                /\ \A c \in 1..Len(data.V_data[k].array) :
                                      Len(data.V_data[k].array[c]) = run_attrs.num_samples)

\* C15 witness: after a second start_run with other arguments than the first
\* and a set-up call, get_data returned arrays.
C15_Witness ==
    /\ Len(timers) = 2
    /\ run_attrs = [num_samples |-> 1, timebase |-> 3, num_captures |-> 2]
    /\ caller.op = "get_data"
    /\ caller.result.raised = None
    /\ Len(caller.result.value.time_values) = 1

C17_WaitWithoutRunBlocks ==
    /\ [](Len(timers) = 0
             => /\ ~data_is_ready
                /\ \A w \in Waiters :
                      waiters[w].pc \in {"idle", "blocked"} /\ waiters[w].how = "none")
    /\ [][\A w \in Waiters :
             (Len(timers) = 0 /\ waiters[w].pc = "idle" /\ waiters'[w] # waiters[w])
                => waiters'[w].pc = "blocked"]_vars
    /\ [][(~data_is_ready /\ data_is_ready')
             => \E t \in Runs : Fires(t) /\ timers[t].function = DefaultCallback]_vars
    /\ [][\A w \in Waiters :
             (waiters[w].pc = "blocked" /\ waiters'[w].pc # "blocked")
                => \E t \in Runs : Fires(t)]_vars
    /\ [](\A w \in Waiters :
             waiters[w].how # "none" => \E t \in Runs : Fired(t))

\* C17 witness: no run was started and a wait_for_data call is blocked.
C17_Witness ==
    /\ Len(timers) = 0
    /\ caller.pc = "idle"
    /\ \E w \in Waiters : waiters[w].pc = "blocked"

\* C18: a stop step leaves the event and the waiting threads as they were;
\* and while the most recently started run is cancelled, its delay not
\* having elapsed before the cancellation, the event does not become set and
\* no blocked wait_for_data call is woken: that takes the completion event
\* of a run started afterwards.
C18_CancelledRunWakesNobody ==
    /\ [][(caller'.op = "stop" /\ caller' # caller)
             => UNCHANGED <<data_is_ready, waiters>>]_vars
    /\ [][(_timer # 0 /\ Cancelled(_timer) /\ timers[_timer].pc # "call")
             => /\ ~data_is_ready => ~data_is_ready'
                /\ \A w \in Waiters :
                      waiters[w].pc = "blocked" => waiters'[w].pc = "blocked"]_vars

====
